---- MODULE Spec2Model ----
(***************************************************************************)
(* Time-Attack: run lifecycle of the Streamlit application (src/app.py)    *)
(* over the SQLite storage layer (src/db_helpers.py, src/init_db.py).      *)
(*                                                                         *)
(* Storage is the four tables of init_db.py, each a set of rows.  The      *)
(* connection of get_connection() never issues PRAGMA foreign_keys = ON,   *)
(* so SQLite does not act on the ON DELETE CASCADE clauses: a DELETE       *)
(* removes only the rows its WHERE clause names.                           *)
(*                                                                         *)
(* Time is an integer wall clock.  db_helpers.py stamps rows with          *)
(* datetime.now() (host local time, stored without offset); app.py reads   *)
(* datetime.now(timezone.utc).  The stored text is read back as a wall     *)
(* time and durations are differences of the two readings.                 *)
(*                                                                         *)
(* A Streamlit session owns st.session_state.  Every widget event runs the  *)
(* script from the top; st.rerun() schedules one more script run, which is *)
(* the step Rerun below.  Only the Active Run page writes session state    *)
(* (its top is the reattach block), so the sidebar radio is not a variable:*)
(* a button of another page is pressed after navigating to that page, and  *)
(* neither the navigation nor that page's script run changes any state.    *)
(***************************************************************************)
EXTENDS Integers, Sequences, FiniteSets, TLC

\* ---------------------------------------------------------------- bounds
MaxClock == 3
MaxDelay == 1
MaxRoutes == 1
MaxRuns == 2
MaxCheckpoints == 2

RouteNames == {"A"}

\* Python None / SQL NULL, and a present value
None == <<>>
Some(x) == <<x>>

VARIABLES
    clock,                    \* the host's wall clock, UTC
    utc_offset,               \* host local time minus UTC
    routes,                   \* table routes
    checkpoints,              \* table checkpoints
    runs,                     \* table runs
    checkpoint_times,         \* table checkpoint_times
    lastrowid,                \* AUTOINCREMENT counters (sqlite_sequence)
    sessions,                 \* the browser sessions
    pc,                       \* per session: "idle", or the button whose st.rerun() is pending
    active_run,               \* st.session_state.active_run
    current_checkpoint_index, \* st.session_state.current_checkpoint_index
    checkpoints_data,         \* st.session_state.checkpoints_data
    ghost_data,               \* st.session_state.ghost_data
    complete_calls,           \* history: per run id, the complete_run calls for it
    start_checkpoints,        \* history: per run id, get_checkpoints of its route at its start
    cancelled,                \* history: ids of the runs cancelled and not completed since
    error                     \* per session: the failure its last failed handler showed

storage == <<routes, checkpoints, runs, checkpoint_times, lastrowid>>
session_state == <<active_run, current_checkpoint_index, checkpoints_data, ghost_data>>
vars == <<clock, utc_offset, routes, checkpoints, runs, checkpoint_times,
          lastrowid, sessions, pc, active_run,
          current_checkpoint_index, checkpoints_data, ghost_data,
          complete_calls, start_checkpoints, cancelled, error>>
history == <<complete_calls, start_checkpoints, cancelled, error>>

\* ------------------------------------------------------------- the clocks
\* datetime.now(timezone.utc) in app.py
app_now(c) == c

\* datetime.now() in db_helpers.py: naive local time
db_now(c) == c + utc_offset

\* (a - b).total_seconds()
total_seconds(a, b) == a - b

\* ------------------------------------------------------- storage: queries
RECURSIVE SumSeq(_)
SumSeq(s) == IF s = <<>> THEN 0 ELSE Head(s) + SumSeq(Tail(s))

\* rows of a result set in ORDER BY order; Before is the strict order
Ordered(S, Before(_, _)) ==
    [i \in 1..Cardinality(S) |->
        CHOOSE e \in S : Cardinality({x \in S : Before(x, e)}) = i - 1]

get_routes == {r.id : r \in routes}

get_checkpoints(route_id) ==
    LET rows == {c \in checkpoints : c.route_id = route_id}
        Before(a, b) == a.sequence_order < b.sequence_order
        sorted == Ordered(rows, Before)
    IN  [i \in 1..Len(sorted) |->
            [id |-> sorted[i].id, sequence_order |-> sorted[i].sequence_order]]

get_run_details(run_id) ==
    LET rows == {r \in runs : r.id = run_id /\ r.route_id \in get_routes}
    IN  IF rows = {} THEN None ELSE Some(CHOOSE r \in rows : TRUE)

get_run_checkpoint_times(run_id) ==
    LET rows == {p \in checkpoint_times \X checkpoints :
                    p[1].checkpoint_id = p[2].id /\ p[1].run_id = run_id}
        Before(a, b) == \/ a[2].sequence_order < b[2].sequence_order
                        \/ /\ a[2].sequence_order = b[2].sequence_order
                           /\ a[1].id < b[1].id
        sorted == Ordered(rows, Before)
        seg(i) == sorted[i][1].segment_time_seconds
    IN  [i \in 1..Len(sorted) |->
            [checkpoint_id   |-> sorted[i][2].id,
             sequence_order  |-> sorted[i][2].sequence_order,
             segment_time    |-> seg(i),
             cumulative_time |-> SumSeq([j \in 1..i |-> seg(j)]),
             time_reached    |-> sorted[i][1].time_reached]]

\* SUM(segment_time_seconds) over a set of checkpoint_times rows
RECURSIVE SumSegmentTimes(_)
SumSegmentTimes(rows) ==
    IF rows = {} THEN 0
    ELSE LET ct == CHOOSE x \in rows : TRUE
         IN  ct.segment_time_seconds + SumSegmentTimes(rows \ {ct})

\* get_checkpoint_analysis without `r.is_completed = 1`
get_checkpoint_analysis_any_run(route_id) ==
    LET joined(c) == {ct \in checkpoint_times :
                        /\ ct.checkpoint_id = c.id
                        /\ \E r \in runs : r.id = ct.run_id}
        groups == {c \in checkpoints : c.route_id = route_id /\ joined(c) # {}}
        Before(a, b) == a.sequence_order < b.sequence_order
        sorted == Ordered(groups, Before)
        seg(ct) == ct.segment_time_seconds
    IN  [i \in 1..Len(sorted) |->
            LET rows == joined(sorted[i])
            IN  [checkpoint_id   |-> sorted[i].id,
                 sequence_order  |-> sorted[i].sequence_order,
                 avg_time        |-> <<SumSegmentTimes(rows), Cardinality(rows)>>,
                 best_time       |-> CHOOSE m \in {seg(ct) : ct \in rows} :
                                        \A ct \in rows : m <= seg(ct),
                 worst_time      |-> CHOOSE m \in {seg(ct) : ct \in rows} :
                                        \A ct \in rows : m >= seg(ct),
                 times_completed |-> Cardinality(rows)]]

\* checkpoints LEFT JOIN checkpoint_times LEFT JOIN runs, WHERE c.route_id = ?
\* AND r.is_completed = 1 (the WHERE drops every NULL-extended row), GROUP BY
\* c.id, ORDER BY c.sequence_order; avg_time is the fraction <<sum, count>>
get_checkpoint_analysis(route_id) ==
    LET joined(c) == {ct \in checkpoint_times :
                        /\ ct.checkpoint_id = c.id
                        /\ \E r \in runs : r.id = ct.run_id /\ r.is_completed}
        groups == {c \in checkpoints : c.route_id = route_id /\ joined(c) # {}}
        Before(a, b) == a.sequence_order < b.sequence_order
        sorted == Ordered(groups, Before)
        seg(ct) == ct.segment_time_seconds
    IN  [i \in 1..Len(sorted) |->
            LET rows == joined(sorted[i])
            IN  [checkpoint_id   |-> sorted[i].id,
                 sequence_order  |-> sorted[i].sequence_order,
                 avg_time        |-> <<SumSegmentTimes(rows), Cardinality(rows)>>,
                 best_time       |-> CHOOSE m \in {seg(ct) : ct \in rows} :
                                        \A ct \in rows : m <= seg(ct),
                 worst_time      |-> CHOOSE m \in {seg(ct) : ct \in rows} :
                                        \A ct \in rows : m >= seg(ct),
                 times_completed |-> Cardinality(rows)]]

\* every result the GROUP BY query with a bare id column can give: the id
\* comes from a row that holds the minimum; `row[1]` is falsy for 0.0
get_personal_best(route_id) ==
    LET done == {r \in runs : r.route_id = route_id /\ r.is_completed}
        best == {r \in done : \A q \in done :
                    r.total_time_seconds[1] <= q.total_time_seconds[1]}
    IN  IF done = {} THEN {None}
        ELSE {IF r.total_time_seconds[1] = 0 THEN None
              ELSE Some([run_id |-> r.id,
                         time_seconds |-> r.total_time_seconds[1],
                         date |-> r.start_time]) : r \in best}

get_live_ghost_data(route_id) ==
    {IF pb = None THEN None ELSE Some(get_run_checkpoint_times(pb[1].run_id)) :
        pb \in get_personal_best(route_id)}

\* get_ghost_comparison with the two runs exchanged
get_ghost_comparison_reversed(run_id, ghost_run_id) ==
    LET current_checkpoints == get_run_checkpoint_times(ghost_run_id)
        ghost_checkpoints == get_run_checkpoint_times(run_id)
        n == IF Len(current_checkpoints) <= Len(ghost_checkpoints)
             THEN Len(current_checkpoints) ELSE Len(ghost_checkpoints)
    IN  [i \in 1..n |->
            [sequence_order     |-> current_checkpoints[i].sequence_order,
             current_segment    |-> current_checkpoints[i].segment_time,
             ghost_segment      |-> ghost_checkpoints[i].segment_time,
             segment_delta      |-> current_checkpoints[i].segment_time
                                        - ghost_checkpoints[i].segment_time,
             current_cumulative |-> current_checkpoints[i].cumulative_time,
             ghost_cumulative   |-> ghost_checkpoints[i].cumulative_time,
             cumulative_delta   |-> current_checkpoints[i].cumulative_time
                                        - ghost_checkpoints[i].cumulative_time]]

\* get_ghost_comparison with the ghost's cumulative time read one row late
get_ghost_comparison_lagged(run_id, ghost_run_id) ==
    LET current_checkpoints == get_run_checkpoint_times(run_id)
        ghost_checkpoints == get_run_checkpoint_times(ghost_run_id)
        n == IF Len(current_checkpoints) <= Len(ghost_checkpoints)
             THEN Len(current_checkpoints) ELSE Len(ghost_checkpoints)
    IN  [i \in 1..n |->
            [sequence_order     |-> current_checkpoints[i].sequence_order,
             current_segment    |-> current_checkpoints[i].segment_time,
             ghost_segment      |-> ghost_checkpoints[i].segment_time,
             segment_delta      |-> current_checkpoints[i].segment_time
                                        - ghost_checkpoints[i].segment_time,
             current_cumulative |-> current_checkpoints[i].cumulative_time,
             ghost_cumulative   |-> ghost_checkpoints[i].segment_time,
             cumulative_delta   |-> current_checkpoints[i].cumulative_time
                                        - ghost_checkpoints[i].segment_time]]

\* the rows of the DataFrame: zip() stops at the shorter list
get_ghost_comparison(run_id, ghost_run_id) ==
    LET current_checkpoints == get_run_checkpoint_times(run_id)
        ghost_checkpoints == get_run_checkpoint_times(ghost_run_id)
        n == IF Len(current_checkpoints) <= Len(ghost_checkpoints)
             THEN Len(current_checkpoints) ELSE Len(ghost_checkpoints)
    IN  [i \in 1..n |->
            [sequence_order     |-> current_checkpoints[i].sequence_order,
             current_segment    |-> current_checkpoints[i].segment_time,
             ghost_segment      |-> ghost_checkpoints[i].segment_time,
             segment_delta      |-> current_checkpoints[i].segment_time
                                        - ghost_checkpoints[i].segment_time,
             current_cumulative |-> current_checkpoints[i].cumulative_time,
             ghost_cumulative   |-> ghost_checkpoints[i].cumulative_time,
             cumulative_delta   |-> current_checkpoints[i].cumulative_time
                                        - ghost_checkpoints[i].cumulative_time]]

\* get_pb_ghost_comparison without the `pb['run_id'] == run_id` test
pb_ghost_run_unchecked(run_id) ==
    LET route_result == {r \in runs : r.id = run_id}
    IN  IF route_result = {} THEN {None}
        ELSE {IF pb = None THEN None ELSE Some(pb[1].run_id) :
                 pb \in get_personal_best((CHOOSE r \in route_result : TRUE).route_id)}

\* get_pb_ghost_comparison up to its last line: None where it returns None,
\* else the run it hands to get_ghost_comparison as the ghost
pb_ghost_run(run_id) ==
    LET route_result == {r \in runs : r.id = run_id}
    IN  IF route_result = {} THEN {None}
        ELSE {IF pb = None \/ pb[1].run_id = run_id THEN None
              ELSE Some(pb[1].run_id) :
                 pb \in get_personal_best((CHOOSE r \in route_result : TRUE).route_id)}

get_pb_ghost_comparison(run_id) ==
    {IF g = None THEN None ELSE Some(get_ghost_comparison(run_id, g[1])) :
        g \in pb_ghost_run(run_id)}

\* most recent run with is_completed = false, or none
get_latest_active_run ==
    LET open == {r \in runs : ~r.is_completed}
        Before(a, b) == \/ a.start_time < b.start_time
                        \/ a.start_time = b.start_time /\ a.id < b.id
    IN  IF open = {} THEN None
        ELSE Some(CHOOSE r \in open : \A q \in open : q = r \/ Before(q, r))

\* ------------------------------------------------------------------ Init
Init ==
    /\ clock = 0
    /\ utc_offset = 0
    /\ routes = {}
    /\ checkpoints = {}
    /\ runs = {}
    /\ checkpoint_times = {}
    /\ lastrowid = [routes |-> 0, checkpoints |-> 0, runs |-> 0, checkpoint_times |-> 0]
    /\ sessions = {1}
    /\ pc = [s \in sessions |-> "idle"]
    /\ active_run = [s \in sessions |-> None]
    /\ current_checkpoint_index = [s \in sessions |-> 0]
    /\ checkpoints_data = [s \in sessions |-> <<>>]
    /\ ghost_data = [s \in sessions |-> None]
    /\ complete_calls = <<>>
    /\ start_checkpoints = <<>>
    /\ cancelled = {}
    /\ error = [s \in sessions |-> None]

\* -------------------------------------------------------- storage: writes
\* INSERT INTO routes; name is UNIQUE
create_route(name) ==
    [id |-> lastrowid.routes + 1, name |-> name]

\* the checkpoints table without UNIQUE(route_id, sequence_order)
add_checkpoint_ok_any(table, route_id, sequence_order) == TRUE

\* INSERT INTO checkpoints; UNIQUE(route_id, sequence_order)
add_checkpoint_ok(table, route_id, sequence_order) ==
    ~\E c \in table : c.route_id = route_id /\ c.sequence_order = sequence_order

add_checkpoint(id, route_id, sequence_order) ==
    [id |-> id, route_id |-> route_id, sequence_order |-> sequence_order]

\* DELETE FROM routes WHERE id = ?
delete_route(route_id) == {r \in routes : r.id # route_id}

\* delete_run with WHERE id = (SELECT MIN(id) FROM runs WHERE id >= ?)
delete_run_next(run_id) ==
    LET later == {r.id : r \in {q \in runs : q.id >= run_id}}
    IN  {r \in runs : r.id < run_id \/ \E id \in later : id < r.id}

\* DELETE FROM runs WHERE id = ?
delete_run(run_id) == {r \in runs : r.id # run_id}

\* start_run that also stamps end_time
start_run_with_end(route_id, c) ==
    [id |-> lastrowid.runs + 1, route_id |-> route_id, start_time |-> db_now(c),
     end_time |-> Some(db_now(c)), total_time_seconds |-> None, is_completed |-> FALSE]

\* INSERT INTO runs (route_id, start_time, notes); the other columns default
start_run(route_id, c) ==
    [id |-> lastrowid.runs + 1, route_id |-> route_id, start_time |-> db_now(c),
     end_time |-> None, total_time_seconds |-> None, is_completed |-> FALSE]

\* complete_run with the WHERE clause lost: every row is updated
complete_run_all_rows(run_id, total_time_seconds, c) ==
    {[r EXCEPT !.end_time = Some(db_now(c)),
               !.total_time_seconds = Some(total_time_seconds),
               !.is_completed = TRUE] : r \in runs}

\* UPDATE runs SET end_time, total_time_seconds, is_completed = 1 WHERE id = ?
complete_run(run_id, total_time_seconds, c) ==
    {IF r.id = run_id
        THEN [r EXCEPT !.end_time = Some(db_now(c)),
                       !.total_time_seconds = Some(total_time_seconds),
                       !.is_completed = TRUE]
        ELSE r : r \in runs}

\* INSERT INTO checkpoint_times
record_checkpoint_time(run_id, checkpoint_id, segment_time_seconds, c) ==
    [id |-> lastrowid.checkpoint_times + 1, run_id |-> run_id,
     checkpoint_id |-> checkpoint_id, time_reached |-> db_now(c),
     segment_time_seconds |-> segment_time_seconds]

\* --------------------------------------------------------- session state
\* the defaults of st.session_state, also what cancel_run() assigns
cancel_run ==
    [active_run |-> None, current_checkpoint_index |-> 0,
     checkpoints_data |-> <<>>, ghost_data |-> None]

Session(s) ==
    [active_run |-> active_run[s],
     current_checkpoint_index |-> current_checkpoint_index[s],
     checkpoints_data |-> checkpoints_data[s],
     ghost_data |-> ghost_data[s]]

SetSession(s, st) ==
    /\ active_run' = [active_run EXCEPT ![s] = st.active_run]
    /\ current_checkpoint_index' =
           [current_checkpoint_index EXCEPT ![s] = st.current_checkpoint_index]
    /\ checkpoints_data' = [checkpoints_data EXCEPT ![s] = st.checkpoints_data]
    /\ ghost_data' = [ghost_data EXCEPT ![s] = st.ghost_data]

\* the reattach block counting the rows of every run
reattach_on_reload_all_rows(st) ==
    LET latest == get_latest_active_run
    IN  IF st.active_run = None /\ latest # None
        THEN {[active_run |-> Some(latest[1].id),
               current_checkpoint_index |-> Cardinality(checkpoint_times),
               checkpoints_data |-> get_checkpoints(latest[1].route_id),
               ghost_data |-> g] : g \in get_live_ghost_data(latest[1].route_id)}
        ELSE {st}

\* the reattach block without the cursor reconstruction
reattach_on_reload_cursor0(st) ==
    LET latest == get_latest_active_run
    IN  IF st.active_run = None /\ latest # None
        THEN {[active_run |-> Some(latest[1].id),
               current_checkpoint_index |-> 0,
               checkpoints_data |-> get_checkpoints(latest[1].route_id),
               ghost_data |-> g] : g \in get_live_ghost_data(latest[1].route_id)}
        ELSE {st}

\* top of the Active Run page: the session states the block can leave
reattach_on_reload(st) ==
    LET latest == get_latest_active_run
    IN  IF st.active_run = None /\ latest # None
        THEN {[active_run |-> Some(latest[1].id),
               current_checkpoint_index |-> Len(get_run_checkpoint_times(latest[1].id)),
               checkpoints_data |-> get_checkpoints(latest[1].route_id),
               ghost_data |-> g] : g \in get_live_ghost_data(latest[1].route_id)}
        ELSE {st}

\* the script without the reattach block
script_run_no_reattach(p, st) == {st}

\* one run of the script on page p from session state st, no button pressed
script_run(p, st) ==
    IF p = "Active Run" THEN reattach_on_reload(st) ELSE {st}

\* "Run in Progress" is drawn down to the two buttons: get_run_details is
\* subscripted, prev_cp_times[-1] is read, and the buttons sit under the
\* guard current_checkpoint_index < len(checkpoints_data)
can_record(st) ==
    /\ st.active_run # None
    /\ get_run_details(st.active_run[1]) # None
    /\ \/ st.current_checkpoint_index = 0
       \/ get_run_checkpoint_times(st.active_run[1]) # <<>>
    /\ st.current_checkpoint_index < Len(st.checkpoints_data)

buttons_drawn(s) ==
    /\ pc[s] = "idle"
    /\ can_record(Session(s))

\* record_checkpoint without `current_checkpoint_index += 1`
record_checkpoint_no_advance(st, c) ==
    LET run_id == st.active_run[1]
        cp_idx == st.current_checkpoint_index
        all_cps == st.checkpoints_data
        run_details == get_run_details(run_id)[1]
        prev_cp_times == get_run_checkpoint_times(run_id)
        last_time == IF cp_idx = 0 THEN run_details.start_time
                     ELSE prev_cp_times[Len(prev_cp_times)].time_reached
        now == app_now(c)
    IN  [run_id |-> run_id,
         checkpoint_id |-> all_cps[cp_idx + 1].id,
         segment_time |-> total_seconds(now, last_time),
         current_checkpoint_index |-> cp_idx,
         finished |-> FALSE,
         total_time |-> total_seconds(now, run_details.start_time)]

\* record_checkpoint with `>` for `>=` in the last-checkpoint test
record_checkpoint_late(st, c) ==
    LET run_id == st.active_run[1]
        cp_idx == st.current_checkpoint_index
        all_cps == st.checkpoints_data
        run_details == get_run_details(run_id)[1]
        prev_cp_times == get_run_checkpoint_times(run_id)
        last_time == IF cp_idx = 0 THEN run_details.start_time
                     ELSE prev_cp_times[Len(prev_cp_times)].time_reached
        now == app_now(c)
    IN  [run_id |-> run_id,
         checkpoint_id |-> all_cps[cp_idx + 1].id,
         segment_time |-> total_seconds(now, last_time),
         current_checkpoint_index |-> cp_idx + 1,
         finished |-> cp_idx + 1 > Len(all_cps),
         total_time |-> total_seconds(now, run_details.start_time)]

\* what record_checkpoint() computes from session state st when app.py's
\* clock reads c: the row it hands to storage, the advanced cursor, whether
\* it goes on to complete_run, and the total it would pass
record_checkpoint(st, c) ==
    LET run_id == st.active_run[1]
        cp_idx == st.current_checkpoint_index
        all_cps == st.checkpoints_data
        run_details == get_run_details(run_id)[1]
        prev_cp_times == get_run_checkpoint_times(run_id)
        last_time == IF cp_idx = 0 THEN run_details.start_time
                     ELSE prev_cp_times[Len(prev_cp_times)].time_reached
        now == app_now(c)
    IN  [run_id |-> run_id,
         checkpoint_id |-> all_cps[cp_idx + 1].id,
         segment_time |-> total_seconds(now, last_time),
         current_checkpoint_index |-> cp_idx + 1,
         finished |-> cp_idx + 1 >= Len(all_cps),
         total_time |-> total_seconds(now, run_details.start_time)]

\* ---------------------------------------------------------------- actions
\* the clock advances between two events
Tick ==
    /\ clock < MaxClock
    /\ clock' = clock + 1
    /\ UNCHANGED <<utc_offset, storage, sessions, pc, session_state, history>>

\* the script run that st.rerun() asked for
Rerun(s) ==
    /\ pc[s] # "idle"
    /\ pc' = [pc EXCEPT ![s] = "idle"]
    /\ \E st \in script_run("Active Run", Session(s)) : SetSession(s, st)
    /\ UNCHANGED <<clock, utc_offset, storage, sessions, history>>

\* browser refresh or process restart: a new st.session_state, and the
\* script runs on the first page of the radio, Active Run
Reload(s) ==
    /\ pc' = [pc EXCEPT ![s] = "idle"]
    /\ \E st \in script_run("Active Run", cancel_run) : SetSession(s, st)
    /\ UNCHANGED <<clock, utc_offset, storage, sessions, history>>

\* "Create Route": the route and its checkpoints 1..n
CreateRoute(s, name, n) ==
    /\ pc[s] = "idle"
    /\ lastrowid.routes < MaxRoutes
    /\ ~\E r \in routes : r.name = name
    /\ LET route == create_route(name)
           base == lastrowid.checkpoints
       IN  /\ routes' = routes \cup {route}
           /\ checkpoints' = checkpoints \cup
                  {add_checkpoint(base + idx, route.id, idx) : idx \in 1..n}
           /\ lastrowid' = [lastrowid EXCEPT !.routes = route.id,
                                             !.checkpoints = base + n]
    /\ UNCHANGED <<clock, utc_offset, runs, checkpoint_times, sessions, pc,
                   session_state, history>>

\* "Edit Checkpoints" then "Add Checkpoint": next_order = max + 1
AddCheckpoint(s, route_id) ==
    /\ pc[s] = "idle"
    /\ route_id \in get_routes
    /\ LET cps == get_checkpoints(route_id)
           next_order == IF cps # <<>> THEN cps[Len(cps)].sequence_order + 1 ELSE 1
       IN  /\ Len(cps) < MaxCheckpoints
           /\ add_checkpoint_ok(checkpoints, route_id, next_order)
           /\ checkpoints' = checkpoints \cup
                  {add_checkpoint(lastrowid.checkpoints + 1, route_id, next_order)}
           /\ lastrowid' = [lastrowid EXCEPT !.checkpoints = @ + 1]
    /\ UNCHANGED <<clock, utc_offset, routes, runs, checkpoint_times, sessions,
                   pc, session_state, history>>

\* "Delete Route"
DeleteRoute(s, route_id) ==
    /\ pc[s] = "idle"
    /\ route_id \in get_routes
    /\ routes' = delete_route(route_id)
    /\ UNCHANGED <<clock, utc_offset, checkpoints, runs, checkpoint_times,
                   lastrowid, sessions, pc, session_state, history>>

\* "Delete This Run": a run of get_run_history of a listed route
DeleteRun(s, run_id) ==
    /\ pc[s] = "idle"
    /\ \E r \in runs : r.id = run_id /\ r.is_completed /\ r.route_id \in get_routes
    /\ runs' = delete_run(run_id)
    /\ UNCHANGED <<clock, utc_offset, routes, checkpoints, checkpoint_times,
                   lastrowid, sessions, pc, session_state, history>>

\* "Start Run" drawn and handled whether or not a run is active
StartRun_while_active(s, route_id) ==
    /\ pc[s] = "idle"
    /\ route_id \in get_routes
    /\ get_checkpoints(route_id) # <<>>
    /\ lastrowid.runs < MaxRuns
    /\ LET run == start_run(route_id, clock)
       IN  /\ runs' = runs \cup {run}
           /\ lastrowid' = [lastrowid EXCEPT !.runs = run.id]
           /\ \E g \in get_live_ghost_data(route_id) :
                 SetSession(s, [active_run |-> Some(run.id),
                                current_checkpoint_index |-> 0,
                                checkpoints_data |-> get_checkpoints(route_id),
                                ghost_data |-> g])
    /\ pc' = [pc EXCEPT ![s] = "Start Run"]
    /\ complete_calls' = Append(complete_calls, 0)
    /\ start_checkpoints' = Append(start_checkpoints, get_checkpoints(route_id))
    /\ UNCHANGED <<clock, utc_offset, routes, checkpoints, checkpoint_times,
                   sessions, cancelled, error>>

\* "Start Run": the form is drawn only if the script top attached to nothing
StartRun(s, route_id) ==
    /\ pc[s] = "idle"
    /\ active_run[s] = None
    /\ get_latest_active_run = None
    /\ route_id \in get_routes
    /\ get_checkpoints(route_id) # <<>>
    /\ lastrowid.runs < MaxRuns
    /\ LET run == start_run(route_id, clock)
       IN  /\ runs' = runs \cup {run}
           /\ lastrowid' = [lastrowid EXCEPT !.runs = run.id]
           /\ \E g \in get_live_ghost_data(route_id) :
                 SetSession(s, [active_run |-> Some(run.id),
                                current_checkpoint_index |-> 0,
                                checkpoints_data |-> get_checkpoints(route_id),
                                ghost_data |-> g])
    /\ pc' = [pc EXCEPT ![s] = "Start Run"]
    /\ complete_calls' = Append(complete_calls, 0)
    /\ start_checkpoints' = Append(start_checkpoints, get_checkpoints(route_id))
    /\ UNCHANGED <<clock, utc_offset, routes, checkpoints, checkpoint_times,
                   sessions, cancelled, error>>

\* "Checkpoint Reached": record_checkpoint(); the clock advances by d1 between
\* app.py's now and record_checkpoint_time, by d2 more before complete_run
RecordCheckpoint(s, d1, d2) ==
    /\ buttons_drawn(s)
    /\ LET rc == record_checkpoint(Session(s), clock)
           row == record_checkpoint_time(rc.run_id, rc.checkpoint_id,
                                         rc.segment_time, clock + d1)
       IN  /\ checkpoint_times' = checkpoint_times \cup {row}
           /\ lastrowid' = [lastrowid EXCEPT !.checkpoint_times = row.id]
           /\ IF rc.finished
              THEN /\ clock' = clock + d1 + d2
                   /\ runs' = complete_run(rc.run_id, rc.total_time, clock + d1 + d2)
                   /\ complete_calls' = [complete_calls EXCEPT ![rc.run_id] = @ + 1]
                   /\ UNCHANGED start_checkpoints
                   /\ cancelled' = cancelled \ {rc.run_id}
                   /\ SetSession(s, cancel_run)
              ELSE /\ d2 = 0
                   /\ clock' = clock + d1
                   /\ UNCHANGED <<runs, complete_calls, start_checkpoints, cancelled>>
                   /\ SetSession(s, [Session(s) EXCEPT
                         !.current_checkpoint_index = rc.current_checkpoint_index])
    /\ clock' <= MaxClock
    /\ pc' = [pc EXCEPT ![s] = "Checkpoint Reached"]
    /\ UNCHANGED <<utc_offset, routes, checkpoints, sessions, error>>

\* "Cancel Run" that also deletes the run it abandons
CancelRun_deletes(s) ==
    /\ buttons_drawn(s)
    /\ SetSession(s, cancel_run)
    /\ pc' = [pc EXCEPT ![s] = "Cancel Run"]
    /\ cancelled' = cancelled \cup {active_run[s][1]}
    /\ runs' = delete_run(active_run[s][1])
    /\ UNCHANGED <<clock, utc_offset, routes, checkpoints, checkpoint_times,
                   lastrowid, sessions, complete_calls, start_checkpoints, error>>

\* "Cancel Run": cancel_run(); st.rerun()
CancelRun(s) ==
    /\ buttons_drawn(s)
    /\ SetSession(s, cancel_run)
    /\ pc' = [pc EXCEPT ![s] = "Cancel Run"]
    /\ cancelled' = cancelled \cup {active_run[s][1]}
    /\ UNCHANGED <<clock, utc_offset, storage, sessions, complete_calls, start_checkpoints, error>>

Next ==
    \/ Tick
    \/ \E s \in sessions : Rerun(s)
    \/ \E s \in sessions : Reload(s)
    \/ \E s \in sessions, name \in RouteNames, n \in 1..MaxCheckpoints :
          CreateRoute(s, name, n)
    \/ \E s \in sessions, route_id \in get_routes : AddCheckpoint(s, route_id)
    \/ \E s \in sessions, route_id \in get_routes : DeleteRoute(s, route_id)
    \/ \E s \in sessions, r \in runs : DeleteRun(s, r.id)
    \/ \E s \in sessions, route_id \in get_routes : StartRun(s, route_id)
    \/ \E s \in sessions, d1 \in 0..MaxDelay, d2 \in 0..MaxDelay :
          RecordCheckpoint(s, d1, d2)
    \/ \E s \in sessions : CancelRun(s)

Spec == Init /\ [][Next]_vars

\* ------------------------------------------- failing and interrupted handlers
\* "Create Route" whose k-th add_checkpoint call raises (each db call commits
\* on its own connection): the route and k - 1 < n checkpoints stay, the
\* except branch shows st.error and there is no st.rerun()
CreateRouteFails(s, name, n, k) ==
    /\ pc[s] = "idle"
    /\ lastrowid.routes < MaxRoutes
    /\ ~\E r \in routes : r.name = name
    /\ k \in 1..n
    /\ LET route == create_route(name)
           base == lastrowid.checkpoints
       IN  /\ routes' = routes \cup {route}
           /\ checkpoints' = checkpoints \cup
                  {add_checkpoint(base + idx, route.id, idx) : idx \in 1..(k - 1)}
           /\ lastrowid' = [lastrowid EXCEPT !.routes = route.id,
                                             !.checkpoints = base + k - 1]
    /\ error' = [error EXCEPT ![s] = Some("Error creating route")]
    /\ UNCHANGED <<clock, utc_offset, runs, checkpoint_times, sessions, pc,
                   session_state, complete_calls, start_checkpoints, cancelled>>

\* "Start Run" without the `if not checkpoints` test
StartRunNoCheckpoints_unchecked(s, route_id) ==
    /\ pc[s] = "idle"
    /\ active_run[s] = None
    /\ get_latest_active_run = None
    /\ route_id \in get_routes
    /\ get_checkpoints(route_id) = <<>>
    /\ lastrowid.runs < MaxRuns
    /\ LET run == start_run(route_id, clock)
       IN  /\ runs' = runs \cup {run}
           /\ lastrowid' = [lastrowid EXCEPT !.runs = run.id]
           /\ \E g \in get_live_ghost_data(route_id) :
                 SetSession(s, [active_run |-> Some(run.id),
                                current_checkpoint_index |-> 0,
                                checkpoints_data |-> get_checkpoints(route_id),
                                ghost_data |-> g])
    /\ pc' = [pc EXCEPT ![s] = "Start Run"]
    /\ complete_calls' = Append(complete_calls, 0)
    /\ start_checkpoints' = Append(start_checkpoints, get_checkpoints(route_id))
    /\ UNCHANGED <<clock, utc_offset, routes, checkpoints, checkpoint_times,
                   sessions, cancelled, error>>

\* "Start Run" on a route whose get_checkpoints is empty: st.error, no
\* start_new_run, no st.rerun()
StartRunNoCheckpoints(s, route_id) ==
    /\ pc[s] = "idle"
    /\ active_run[s] = None
    /\ get_latest_active_run = None
    /\ route_id \in get_routes
    /\ get_checkpoints(route_id) = <<>>
    /\ error' = [error EXCEPT ![s] = Some("This route has no checkpoints")]
    /\ UNCHANGED <<clock, utc_offset, storage, sessions, pc, session_state,
                   complete_calls, start_checkpoints, cancelled>>

\* "Checkpoint Reached" on the last checkpoint, the process killed between
\* the commit of record_checkpoint_time and complete_run: the row stays, the
\* session state is lost, and the next script run is the one after restart
RecordCheckpointInterrupted(s, d1) ==
    /\ buttons_drawn(s)
    /\ clock + d1 <= MaxClock
    /\ LET rc == record_checkpoint(Session(s), clock)
           row == record_checkpoint_time(rc.run_id, rc.checkpoint_id,
                                         rc.segment_time, clock + d1)
       IN  /\ rc.finished
           /\ checkpoint_times' = checkpoint_times \cup {row}
           /\ lastrowid' = [lastrowid EXCEPT !.checkpoint_times = row.id]
    /\ clock' = clock + d1
    /\ SetSession(s, cancel_run)
    /\ pc' = [pc EXCEPT ![s] = "Interrupted"]
    /\ UNCHANGED <<utc_offset, routes, checkpoints, runs, sessions, history>>

\* record_checkpoint_raises with a subscript that never raises IndexError
record_checkpoint_raises_unchecked(st) ==
    LET cp_idx == st.current_checkpoint_index
        run_details == IF st.active_run = None THEN None
                       ELSE get_run_details(st.active_run[1])
    IN  IF cp_idx = 0 /\ run_details = None THEN Some("TypeError")
        ELSE None

\* the exception record_checkpoint() raises before its first write, or None:
\* run_details['start_time'] on None, prev_cp_times[-1] on an empty list,
\* all_cps[cp_idx] past the end
record_checkpoint_raises(st) ==
    LET cp_idx == st.current_checkpoint_index
        all_cps == st.checkpoints_data
        run_details == IF st.active_run = None THEN None
                       ELSE get_run_details(st.active_run[1])
        prev_cp_times == IF st.active_run = None THEN <<>>
                         ELSE get_run_checkpoint_times(st.active_run[1])
    IN  IF cp_idx = 0 /\ run_details = None THEN Some("TypeError")
        ELSE IF cp_idx > 0 /\ prev_cp_times = <<>> THEN Some("IndexError")
        ELSE IF cp_idx >= Len(all_cps) THEN Some("IndexError")
        ELSE None

\* record_checkpoint() called in a session state where it raises
RecordCheckpointRaises(s) ==
    /\ pc[s] = "idle"
    /\ record_checkpoint_raises(Session(s)) # None
    /\ error' = [error EXCEPT ![s] = record_checkpoint_raises(Session(s))]
    /\ UNCHANGED <<clock, utc_offset, storage, sessions, pc, session_state,
                   complete_calls, start_checkpoints, cancelled>>

NextFaults ==
    \/ Next
    \/ \E s \in sessions, name \in RouteNames, n \in 1..MaxCheckpoints, k \in 1..MaxCheckpoints :
          CreateRouteFails(s, name, n, k)
    \/ \E s \in sessions, route_id \in get_routes : StartRunNoCheckpoints(s, route_id)
    \/ \E s \in sessions, d1 \in 0..MaxDelay : RecordCheckpointInterrupted(s, d1)
    \/ \E s \in sessions : RecordCheckpointRaises(s)

SpecFaults == Init /\ [][NextFaults]_vars

\* ------------------------------------------------------------- properties
RowsOf(run_id) == {ct \in checkpoint_times : ct.run_id = run_id}

RECURSIVE SumSegments(_)
SumSegments(rows) ==
    IF rows = {} THEN 0
    ELSE LET ct == CHOOSE x \in rows : TRUE
         IN  ct.segment_time_seconds + SumSegments(rows \ {ct})

\* the checkpoint_times rows of a run in the order they were inserted
RecordedOrder(run_id) ==
    LET Before(a, b) == a.id < b.id
    IN  Ordered(RowsOf(run_id), Before)

\* a step of session s that is the "Checkpoint Reached" / "Cancel Run" handler
RecordStep(s) == pc[s] = "idle" /\ pc'[s] = "Checkpoint Reached"
CancelStep(s) == pc[s] = "idle" /\ pc'[s] = "Cancel Run"

\* C1: every completed run has total_time_seconds equal to the sum of the
\* segment_time_seconds of all of its checkpoint_times rows.
C1_TotalIsSumOfSegments ==
    \A r \in runs :
        r.is_completed => r.total_time_seconds[1] = SumSegments(RowsOf(r.id))

\* C2: a run has at most one checkpoint_times row per checkpoint, and the
\* k-th row recorded for it is for the k-th checkpoint of its route in
\* sequence_order order.
C2_RecordedInRouteOrder ==
    \A r \in runs :
        LET rec == RecordedOrder(r.id)
            cps == get_checkpoints(r.route_id)
        IN  /\ Len(rec) <= Len(cps)
            /\ \A k \in 1..Len(rec) : rec[k].checkpoint_id = cps[k].id
            /\ \A j, k \in 1..Len(rec) :
                  rec[j].checkpoint_id = rec[k].checkpoint_id => j = k

\* C2 witness: a run has rows for both checkpoints of its route, the second
\* recorded later than the first.
C2_Witness ==
    \E r \in runs :
        /\ Len(get_checkpoints(r.route_id)) = 2
        /\ Len(RecordedOrder(r.id)) = 2
        /\ RecordedOrder(r.id)[1].time_reached < RecordedOrder(r.id)[2].time_reached

\* C3: a "Checkpoint Reached" step completes the active run exactly when the
\* advanced cursor equals the length of the session's checkpoint list; then
\* total_time_seconds = now - start_time is stored, is_completed is set and
\* active_run is None; otherwise the run stays incomplete and active.
C3_CompletesExactlyAtLastCheckpoint ==
    [][\A s \in sessions : RecordStep(s) =>
          LET run_id == active_run[s][1]
              before == CHOOSE r \in runs : r.id = run_id
              after == CHOOSE r \in runs' : r.id = run_id
              at_end == current_checkpoint_index[s] + 1 = Len(checkpoints_data[s])
          IN  /\ \E r \in runs' : r.id = run_id
              /\ after.is_completed <=> at_end
              /\ at_end =>
                    /\ after.total_time_seconds =
                          Some(total_seconds(app_now(clock), before.start_time))
                    /\ after.end_time # None
                    /\ active_run'[s] = None
              /\ ~at_end =>
                    /\ after = before
                    /\ ~before.is_completed
                    /\ active_run'[s] = Some(run_id)
                    /\ current_checkpoint_index'[s] = current_checkpoint_index[s] + 1
      ]_vars

\* C3 witness: the handler has just completed a run of two checkpoints.
C3_Witness ==
    \E s \in sessions, r \in runs :
        /\ pc[s] = "Checkpoint Reached"
        /\ active_run[s] = None
        /\ r.is_completed
        /\ complete_calls[r.id] = 1
        /\ Cardinality(RowsOf(r.id)) = 2
        /\ r.total_time_seconds[1] > 0

\* C4: a completed run is completed for good: no step changes its row other
\* than deleting it, and complete_run is not applied to it a second time.
C4_CompletedOnce ==
    [][/\ \A r \in runs : r.is_completed =>
             (r \in runs' \/ ~\E q \in runs' : q.id = r.id)
       /\ \A id \in DOMAIN complete_calls :
             complete_calls[id] >= 1 => complete_calls'[id] = complete_calls[id]
      ]_vars

\* C4 witness: after a run completed, a later run was started, recorded a
\* checkpoint, was cancelled and taken up again, and completed as well.
C4_Witness ==
    \E r, q \in runs :
        /\ r.id < q.id
        /\ r.is_completed /\ complete_calls[r.id] = 1
        /\ q.is_completed /\ complete_calls[q.id] = 1
        /\ r.start_time < q.start_time

SessionNext(s) ==
    [active_run |-> active_run'[s],
     current_checkpoint_index |-> current_checkpoint_index'[s],
     checkpoints_data |-> checkpoints_data'[s],
     ghost_data |-> ghost_data'[s]]

\* C5: right after "Cancel Run", get_latest_active_run returns None and the
\* session stays without an active run: the script run that follows does
\* not attach to the cancelled run.
C5_CancelledRunNotReattached ==
    [][\A s \in sessions : pc[s] = "Cancel Run" =>
          /\ get_latest_active_run = None
          /\ active_run'[s] = None
      ]_vars

\* C6: a cancelled run stays as it was: while its row exists it is not
\* completed, has no total_time_seconds, and no checkpoint_times row is
\* added to it.
C6_CancelledRunStaysOrphaned ==
    [][\A id \in cancelled : \A r \in runs' : r.id = id =>
          /\ ~r.is_completed
          /\ r.total_time_seconds = None
          /\ {ct \in checkpoint_times' : ct.run_id = id} = RowsOf(id)
      ]_vars

\* C7: "Cancel Run" leaves the four tables as they are - the rows of the
\* cancelled run stay and the run stays incomplete - and resets the session
\* to active_run None, cursor 0, no checkpoint list, no ghost.
C7_CancelClearsSessionOnly ==
    [][\A s \in sessions : CancelStep(s) =>
          /\ routes' = routes
          /\ checkpoints' = checkpoints
          /\ runs' = runs
          /\ checkpoint_times' = checkpoint_times
          /\ \E r \in runs' : r.id = active_run[s][1] /\ ~r.is_completed
          /\ active_run'[s] = None
          /\ current_checkpoint_index'[s] = 0
          /\ checkpoints_data'[s] = <<>>
          /\ ghost_data'[s] = None
      ]_vars

\* C7 witness: a run was cancelled after 1 of 2 checkpoints; its row and its
\* checkpoint_times row are stored and the session holds no run.
C7_Witness ==
    \E s \in sessions, r \in runs :
        /\ pc[s] = "Cancel Run"
        /\ Session(s) = [active_run |-> None, current_checkpoint_index |-> 0,
                         checkpoints_data |-> <<>>, ghost_data |-> None]
        /\ r.id \in cancelled
        /\ ~r.is_completed
        /\ Cardinality(RowsOf(r.id)) = 1
        /\ Len(get_checkpoints(r.route_id)) = 2

\* what the top of the Active Run page must leave in session s when it is
\* entered with session state st
C8_After(s, st) ==
    LET open == {r \in runs : ~r.is_completed}
    IN  IF st.active_run # None THEN SessionNext(s) = st
        ELSE IF open = {} THEN SessionNext(s) = st
        ELSE \E r \in open :
               LET cps == get_checkpoints(r.route_id)
                   missing == {k \in 1..Len(cps) :
                                 ~\E ct \in RowsOf(r.id) : ct.checkpoint_id = cps[k].id}
                   cursor == current_checkpoint_index'[s]
               IN  /\ \A q \in open : q.start_time <= r.start_time
                   /\ active_run'[s] = Some(r.id)
                   /\ cursor = Cardinality(RowsOf(r.id))
                   /\ missing # {}
                   /\ cursor < Len(checkpoints_data'[s])
                   /\ \A k \in missing : cursor + 1 <= k
                   /\ checkpoints_data'[s][cursor + 1].id = cps[cursor + 1].id
                   /\ cursor + 1 \in missing

C9_ListCurrent(s) ==
    \E r \in runs : /\ r.id = active_run[s][1]
                    /\ checkpoints_data[s] = get_checkpoints(r.route_id)

C10_CheckpointListFixedDuringRun ==
    [][\A s \in sessions :
          (active_run[s] # None /\ active_run'[s] = active_run[s]) =>
              checkpoints_data'[s] = checkpoints_data[s]
      ]_vars

\* a "Start Run" press of session s that was refused for want of checkpoints
StartRefusedStep(s) ==
    /\ pc[s] = "idle"
    /\ error'[s] = Some("This route has no checkpoints")
    /\ error'[s] # error[s]

\* C11: "Start Run" never persists a run for a route without checkpoints,
\* and a start refused for that reason leaves the runs table and the
\* session's active run, cursor, checkpoint list and ghost as they were.
C11_StartWithoutCheckpointsRefused ==
    [][\A s \in sessions :
          /\ (pc[s] = "idle" /\ pc'[s] = "Start Run") =>
                \A r \in runs' \ runs : get_checkpoints(r.route_id) # <<>>
          /\ StartRefusedStep(s) =>
                /\ runs' = runs
                /\ checkpoint_times' = checkpoint_times
                /\ SessionNext(s) = Session(s)
                /\ pc'[s] = "idle"
      ]_vars

\* C11 witness: a route without checkpoints exists, the session was refused
\* a start on it, and there is no run and no active run.
C11_Witness ==
    \E s \in sessions, route_id \in get_routes :
        /\ get_checkpoints(route_id) = <<>>
        /\ error[s] = Some("This route has no checkpoints")
        /\ active_run[s] = None
        /\ runs = {}

\* a call of record_checkpoint() in session s that ended in an exception
RecordRaisedStep(s) ==
    /\ pc[s] = "idle"
    /\ error'[s] \in {Some("TypeError"), Some("IndexError")}
    /\ error'[s] # error[s]

CompletedRuns(route_id) ==
    {r \in runs : r.route_id = route_id /\ r.is_completed}

\* C13: get_personal_best(route) is None exactly when the route has no
\* completed run; otherwise it is the id, total and start date of a
\* completed run of the route whose total is <= every completed total of
\* the route, a total of zero included.
C13_PersonalBestIsMinimum ==
    \A route_id \in 1..MaxRoutes : \A pb \in get_personal_best(route_id) :
        /\ (pb = None) <=> (CompletedRuns(route_id) = {})
        /\ pb # None =>
              \E r \in CompletedRuns(route_id) :
                  /\ pb[1] = [run_id |-> r.id,
                              time_seconds |-> r.total_time_seconds[1],
                              date |-> r.start_time]
                  /\ \A q \in CompletedRuns(route_id) :
                        r.total_time_seconds[1] <= q.total_time_seconds[1]

\* C14: when a run of a route that has a personal best completes with a
\* total strictly greater than the best, get_personal_best returns what it
\* returned before; with a total strictly less it returns the new run.
C14_PersonalBestMonotonic ==
    [][\A s \in sessions : \A q \in runs' :
          (/\ RecordStep(s)
           /\ q.is_completed
           /\ \E r \in runs : r.id = q.id /\ ~r.is_completed
           /\ get_personal_best(q.route_id) # {None}) =>
              \A pb \in get_personal_best(q.route_id) :
                  /\ q.total_time_seconds[1] > pb[1].time_seconds =>
                        get_personal_best(q.route_id)' = get_personal_best(q.route_id)
                  /\ q.total_time_seconds[1] < pb[1].time_seconds =>
                        get_personal_best(q.route_id)' =
                            {Some([run_id |-> q.id,
                                   time_seconds |-> q.total_time_seconds[1],
                                   date |-> q.start_time])}
      ]_vars

PositionOf(ct) ==
    (CHOOSE c \in checkpoints : c.id = ct.checkpoint_id).sequence_order

\* the checkpoint_times rows of a run by sequence position
InPositionOrder(run_id) ==
    LET Before(a, b) == \/ PositionOf(a) < PositionOf(b)
                        \/ PositionOf(a) = PositionOf(b) /\ a.id < b.id
    IN  Ordered(RowsOf(run_id), Before)

\* sum of the first i segment times of a sequence of rows
CumulativeAt(rows, i) ==
    SumSeq([j \in 1..i |-> rows[j].segment_time_seconds])

\* C16: get_ghost_comparison(run, ghost) has as many entries as the shorter
\* of the two runs has checkpoint_times rows; entry i pairs the i-th row of
\* each run by sequence position, with segment_delta = current - ghost
\* segment and cumulative_delta = current - ghost cumulative, cumulative
\* being the sum of the run's segments 1..i.
C16_ComparePairsByPosition ==
    \A a \in 1..MaxRuns, b \in 1..MaxRuns :
        LET cmp == get_ghost_comparison(a, b)
            ra == InPositionOrder(a)
            rb == InPositionOrder(b)
        IN  /\ Len(cmp) = IF Len(ra) <= Len(rb) THEN Len(ra) ELSE Len(rb)
            /\ \A i \in 1..Len(cmp) :
                  /\ cmp[i].current_segment = ra[i].segment_time_seconds
                  /\ cmp[i].ghost_segment = rb[i].segment_time_seconds
                  /\ cmp[i].segment_delta =
                        ra[i].segment_time_seconds - rb[i].segment_time_seconds
                  /\ cmp[i].cumulative_delta =
                        CumulativeAt(ra, i) - CumulativeAt(rb, i)

\* C16 witness: run 1 has two rows and run 2 one; the comparison of run 2
\* against run 1 has one entry, with a segment delta that is not zero.
C16_Witness ==
    /\ Cardinality(RowsOf(1)) = 2
    /\ Cardinality(RowsOf(2)) = 1
    /\ Len(get_ghost_comparison(2, 1)) = 1
    /\ get_ghost_comparison(2, 1)[1].segment_delta # 0

\* C17: get_ghost_comparison(r, r) has one entry per checkpoint_times row
\* of r, and every segment_delta and cumulative_delta in it is 0.
C17_CompareWithSelfIsZero ==
    \A r \in 1..MaxRuns :
        LET cmp == get_ghost_comparison(r, r)
        IN  /\ Len(cmp) = Cardinality(RowsOf(r))
            /\ \A i \in 1..Len(cmp) :
                  cmp[i].segment_delta = 0 /\ cmp[i].cumulative_delta = 0

\* C17 witness: a run with two rows whose first segment is not zero, so its
\* cumulative times differ from its segment times.
C17_Witness ==
    \E r \in runs :
        /\ Len(get_ghost_comparison(r.id, r.id)) = 2
        /\ get_ghost_comparison(r.id, r.id)[1].current_segment > 0
        /\ get_ghost_comparison(r.id, r.id)[2].current_cumulative >
              get_ghost_comparison(r.id, r.id)[2].current_segment

\* C18: every checkpoint_times row belongs to a run that has a row in runs.
C18_NoCheckpointTimeWithoutRun ==
    \A ct \in checkpoint_times : \E r \in runs : r.id = ct.run_id

\* C19: every checkpoints row and every runs row belongs to a route that
\* has a row in routes.
C19_NoRowWithoutRoute ==
    /\ \A c \in checkpoints : c.route_id \in get_routes
    /\ \A r \in runs : r.route_id \in get_routes

MaxCheckpointRows == 4

\* names typed into "Route Name": a name, or nothing
RouteNameInputs == RouteNames \cup {""}

\* DELETE FROM checkpoints WHERE id = ?
delete_checkpoint(checkpoint_id) == {c \in checkpoints : c.id # checkpoint_id}

\* the message "Create Route" shows instead of writing: the two validation
\* branches, then create_route's IntegrityError on the UNIQUE name caught by
\* the except branch; None when the handler goes on to write
create_route_rejected(name, all_named) ==
    IF name = "" THEN Some("Please enter a route name")
    ELSE IF ~all_named THEN Some("Please fill in all checkpoint names")
    ELSE IF \E r \in routes : r.name = name THEN Some("Error creating route")
    ELSE None

\* "Create Route" that is rejected: st.error, no write, no st.rerun()
CreateRouteRejected(s, name, all_named) ==
    /\ pc[s] = "idle"
    /\ create_route_rejected(name, all_named) # None
    /\ error' = [error EXCEPT ![s] = create_route_rejected(name, all_named)]
    /\ UNCHANGED <<clock, utc_offset, storage, sessions, pc, session_state,
                   complete_calls, start_checkpoints, cancelled>>

\* db.add_checkpoint(route_id, name, sequence_order) with any arguments: the
\* INSERT raises IntegrityError on a used (route_id, sequence_order) and
\* writes nothing, sqlite_sequence included; the route need not exist any
\* more (route_id is an id that create_route has returned)
AddCheckpointAt(s, route_id, sequence_order) ==
    /\ pc[s] = "idle"
    /\ lastrowid.checkpoints < MaxCheckpointRows
    /\ IF add_checkpoint_ok(checkpoints, route_id, sequence_order)
       THEN /\ checkpoints' = checkpoints \cup
                   {add_checkpoint(lastrowid.checkpoints + 1, route_id, sequence_order)}
            /\ lastrowid' = [lastrowid EXCEPT !.checkpoints = @ + 1]
            /\ UNCHANGED error
       ELSE /\ error' = [error EXCEPT ![s] = Some("IntegrityError")]
            /\ UNCHANGED <<checkpoints, lastrowid>>
    /\ UNCHANGED <<clock, utc_offset, routes, runs, checkpoint_times, sessions,
                   pc, session_state, complete_calls, start_checkpoints, cancelled>>

\* db.delete_checkpoint(checkpoint_id)
DeleteCheckpoint(s, checkpoint_id) ==
    /\ pc[s] = "idle"
    /\ checkpoints' = delete_checkpoint(checkpoint_id)
    /\ UNCHANGED <<clock, utc_offset, routes, runs, checkpoint_times, lastrowid,
                   sessions, pc, session_state, history>>

NextRoutes ==
    \/ \E s \in sessions, name \in RouteNames, n \in 1..MaxCheckpoints :
          CreateRoute(s, name, n)
    \/ \E s \in sessions, name \in RouteNames, n \in 1..MaxCheckpoints, k \in 1..MaxCheckpoints :
          CreateRouteFails(s, name, n, k)
    \/ \E s \in sessions, name \in RouteNameInputs, all_named \in BOOLEAN :
          CreateRouteRejected(s, name, all_named)
    \/ \E s \in sessions, route_id \in get_routes :
          lastrowid.checkpoints < MaxCheckpointRows /\ AddCheckpoint(s, route_id)
    \/ \E s \in sessions, route_id \in 1..lastrowid.routes, sequence_order \in 1..MaxCheckpoints :
          AddCheckpointAt(s, route_id, sequence_order)
    \/ \E s \in sessions, c \in checkpoints : DeleteCheckpoint(s, c.id)
    \/ \E s \in sessions, route_id \in get_routes : DeleteRoute(s, route_id)

SpecRoutes == Init /\ [][NextRoutes]_vars

\* no two rows of checkpoints share (route_id, sequence_order), and
\* get_checkpoints lists a route's rows by strictly increasing position
C21_PositionsDistinct ==
    /\ \A c1 \in checkpoints, c2 \in checkpoints :
          c1.route_id = c2.route_id /\ c1.sequence_order = c2.sequence_order
             => c1 = c2
    /\ \A route_id \in 1..MaxRoutes :
          LET cps == get_checkpoints(route_id)
          IN  /\ \A i \in 1..Len(cps), j \in 1..Len(cps) :
                    i < j => cps[i].sequence_order < cps[j].sequence_order
              /\ {cps[i].id : i \in 1..Len(cps)} =
                     {c.id : c \in {x \in checkpoints : x.route_id = route_id}}
              /\ Len(cps) = Cardinality({x \in checkpoints : x.route_id = route_id})

\* C21: after any sequence of route creations, checkpoint additions,
\* checkpoint deletions and route deletions no two checkpoints of a route
\* share a sequence position and get_checkpoints returns them in strictly
\* increasing position order; no step inserts a row at a position that is
\* already used, and an add_checkpoint call with such a position is rejected
\* with IntegrityError and leaves the table as it was.
C21_UniquePositions ==
    /\ []C21_PositionsDistinct
    /\ [][/\ \A c \in checkpoints' \ checkpoints :
                add_checkpoint_ok(checkpoints, c.route_id, c.sequence_order)
          /\ \A s \in sessions, route_id \in 1..MaxRoutes,
                sequence_order \in 1..MaxCheckpoints :
                AddCheckpointAt(s, route_id, sequence_order)
                /\ (\E c \in checkpoints : /\ c.route_id = route_id
                                           /\ c.sequence_order = sequence_order)
                => /\ checkpoints' = checkpoints
                   /\ error'[s] = Some("IntegrityError")
         ]_vars

\* C21 witness: a duplicate position has been rejected, a checkpoint has been
\* deleted and a later one added, and the route lists two checkpoints.
C21_Witness ==
    \E s \in sessions, route_id \in get_routes :
        /\ error[s] = Some("IntegrityError")
        /\ Len(get_checkpoints(route_id)) = 2
        /\ lastrowid.checkpoints > Cardinality(checkpoints)
        /\ \E c \in checkpoints : c.route_id = route_id /\ c.sequence_order > 2

\* what a "Create Route" click with n checkpoint names may leave in storage:
\* nothing new, or the new route with its n checkpoints
C22_AllOrNothing(n) ==
    \/ UNCHANGED storage
    \/ \E route \in routes' \ routes :
          /\ routes' = routes \cup {route}
          /\ checkpoints \subseteq checkpoints'
          /\ \A c \in checkpoints' \ checkpoints : c.route_id = route.id
          /\ {c.sequence_order : c \in checkpoints' \ checkpoints} = 1..n
          /\ UNCHANGED <<runs, checkpoint_times>>

\* C22: a rejected input writes nothing (route creation with an empty or an
\* existing name or an unnamed checkpoint, add_checkpoint with a used
\* position), and a "Create Route" click leaves either the route with all
\* its checkpoints or nothing at all.
C22_NoPartialWrites ==
    [][\A s \in sessions :
          /\ \A name \in RouteNameInputs, all_named \in BOOLEAN :
                CreateRouteRejected(s, name, all_named) => UNCHANGED storage
          /\ \A route_id \in 1..MaxRoutes, sequence_order \in 1..MaxCheckpoints :
                AddCheckpointAt(s, route_id, sequence_order)
                /\ ~add_checkpoint_ok(checkpoints, route_id, sequence_order)
                => UNCHANGED storage
          /\ \A name \in RouteNames, n \in 1..MaxCheckpoints :
                \/ CreateRoute(s, name, n)
                \/ \E k \in 1..MaxCheckpoints : CreateRouteFails(s, name, n, k)
                => C22_AllOrNothing(n)
      ]_vars

\* the parts of C22 that hold: rejected inputs write nothing, and a
\* "Create Route" click whose calls all return leaves the whole route
C22_RejectedInputsWriteNothing ==
    [][\A s \in sessions :
          /\ \A name \in RouteNameInputs, all_named \in BOOLEAN :
                CreateRouteRejected(s, name, all_named) => UNCHANGED storage
          /\ \A route_id \in 1..MaxRoutes, sequence_order \in 1..MaxCheckpoints :
                AddCheckpointAt(s, route_id, sequence_order)
                /\ ~add_checkpoint_ok(checkpoints, route_id, sequence_order)
                => UNCHANGED storage
          /\ \A name \in RouteNames, n \in 1..MaxCheckpoints :
                CreateRoute(s, name, n) => C22_AllOrNothing(n)
      ]_vars

\* C23: within a session a run is started only while the session holds no
\* active run, and st.session_state.active_run changes only from None to a
\* run (Start Run, or the reattach block of a script run) and from a run to
\* None (the Checkpoint Reached that completes it, or Cancel Run), never
\* from one run to another.
C23_OneRunAtATime ==
    [][\A s \in sessions :
          /\ lastrowid'.runs # lastrowid.runs => active_run[s] = None
          /\ \A route_id \in get_routes : StartRun(s, route_id) => active_run[s] = None
          /\ active_run[s] # None /\ active_run'[s] # None
                => active_run'[s] = active_run[s]
          /\ active_run[s] = None /\ active_run'[s] # None
                => \/ \E route_id \in get_routes : StartRun(s, route_id)
                   \/ Rerun(s)
                   \/ Reload(s)
          /\ active_run[s] # None /\ active_run'[s] = None
                => \/ CancelRun(s)
                   \/ \E d1 \in 0..MaxDelay, d2 \in 0..MaxDelay :
                         /\ RecordCheckpoint(s, d1, d2)
                         /\ \E r \in runs' : r.id = active_run[s][1] /\ r.is_completed
      ]_vars

\* C23 witness: the session holds its second run, started after the first
\* one was completed.
C23_Witness ==
    \E s \in sessions :
        /\ active_run[s] = Some(2)
        /\ \E r \in runs : r.id = 1 /\ r.is_completed
        /\ \E r \in runs : r.id = 2 /\ ~r.is_completed

\* C24: the ghost data of a session is taken once, by Start Run, from the
\* personal best of the route at that moment (None if there is none), and
\* no step changes it while the session stays on the same run, whatever
\* happens to the personal best meanwhile.
C24_GhostIsStartSnapshot ==
    [][\A s \in sessions :
          /\ \A route_id \in get_routes :
                StartRun(s, route_id) => ghost_data'[s] \in get_live_ghost_data(route_id)
          /\ active_run[s] # None /\ active_run'[s] = active_run[s]
                => ghost_data'[s] = ghost_data[s]
      ]_vars

\* the checkpoint_times rows of checkpoint c that belong to completed runs
CompletedRecords(c) ==
    {ct \in checkpoint_times :
        /\ ct.checkpoint_id = c.id
        /\ \E r \in runs : r.id = ct.run_id /\ r.is_completed}

\* C25: get_checkpoint_analysis aggregates only checkpoint_times rows of
\* completed runs: a checkpoint of the route with such rows has exactly one
\* result row, whose count is the number of completed runs with a row for
\* it, whose best and worst are the least and greatest segment of those rows
\* and whose average lies between them; a checkpoint without such rows has
\* no result row, so rows of cancelled or unfinished runs never contribute.
C25_AnalysisOverCompletedRuns ==
    \A route_id \in 1..MaxRoutes :
        LET analysis == get_checkpoint_analysis(route_id)
            ResultsOf(c) == {i \in 1..Len(analysis) : analysis[i].checkpoint_id = c.id}
        IN  /\ \A i \in 1..Len(analysis) :
                  \E c \in checkpoints :
                      c.route_id = route_id /\ c.id = analysis[i].checkpoint_id
            /\ \A c \in {x \in checkpoints : x.route_id = route_id} :
                  LET recs == CompletedRecords(c)
                      with == {r \in runs : /\ r.is_completed
                                            /\ \E ct \in RowsOf(r.id) :
                                                  ct.checkpoint_id = c.id}
                  IN  IF recs = {} THEN ResultsOf(c) = {}
                      ELSE /\ Cardinality(ResultsOf(c)) = 1
                           /\ \A i \in ResultsOf(c) :
                                 LET a == analysis[i]
                                 IN  /\ a.times_completed = Cardinality(with)
                                     /\ a.avg_time[2] = Cardinality(recs)
                                     /\ a.avg_time[1] = SumSegments(recs)
                                     /\ \E ct \in recs : a.best_time = ct.segment_time_seconds
                                     /\ \E ct \in recs : a.worst_time = ct.segment_time_seconds
                                     /\ \A ct \in recs :
                                           /\ a.best_time <= ct.segment_time_seconds
                                           /\ ct.segment_time_seconds <= a.worst_time
                                     /\ a.best_time * a.avg_time[2] <= a.avg_time[1]
                                     /\ a.avg_time[1] <= a.worst_time * a.avg_time[2]

\* C25 witness: a checkpoint has a row of a completed run and a row of the
\* run in progress, and the analysis counts one.
C25_Witness ==
    \E s \in sessions, c \in checkpoints :
        /\ active_run[s] # None
        /\ \E ct \in RowsOf(active_run[s][1]) : ct.checkpoint_id = c.id
        /\ CompletedRecords(c) # {}
        /\ \E i \in 1..Len(get_checkpoint_analysis(c.route_id)) :
              /\ get_checkpoint_analysis(c.route_id)[i].checkpoint_id = c.id
              /\ get_checkpoint_analysis(c.route_id)[i].times_completed = 1

\* no session holds a run with the cursor at or past the end of its list
C26_CursorInsideList ==
    \A s \in sessions :
        active_run[s] # None
           => current_checkpoint_index[s] < Len(checkpoints_data[s])

\* C26: no stuck run. In every reachable state with an active run, the one
\* reached by reattaching after an interruption between the last
\* checkpoint_times row and complete_run included, the cursor is below the
\* number of checkpoints of the session's list, and once the pending script
\* run is done the page offers Checkpoint Reached and Cancel Run.
C26_NoStuckRun ==
    /\ C26_CursorInsideList
    /\ \A s \in sessions :
          active_run[s] # None /\ pc[s] = "idle" => buttons_drawn(s)

C28_FinalDeltaNotNegative ==
    \A r \in {x \in runs : x.is_completed} :
        \A g \in pb_ghost_run(r.id) :
            /\ g # None
            /\ Cardinality(RowsOf(r.id)) = Cardinality(RowsOf(g[1]))
            /\ get_ghost_comparison(r.id, g[1]) # <<>>
            => LET ghost_comparison == get_ghost_comparison(r.id, g[1])
               IN  ghost_comparison[Len(ghost_comparison)].cumulative_delta >= 0

\* ------------------------------------------- two sessions on one storage
\* two browser sessions of the same process, each with its own
\* st.session_state, on a storage where "Create Route" has made route "A"
\* with MaxCheckpoints checkpoints; neither session has started a run
InitTwo ==
    /\ clock = 0
    /\ utc_offset = 0
    /\ routes = {[id |-> 1, name |-> "A"]}
    /\ checkpoints = {add_checkpoint(idx, 1, idx) : idx \in 1..MaxCheckpoints}
    /\ runs = {}
    /\ checkpoint_times = {}
    /\ lastrowid = [routes |-> 1, checkpoints |-> MaxCheckpoints, runs |-> 0,
                    checkpoint_times |-> 0]
    /\ sessions = {1, 2}
    /\ pc = [s \in sessions |-> "idle"]
    /\ active_run = [s \in sessions |-> None]
    /\ current_checkpoint_index = [s \in sessions |-> 0]
    /\ checkpoints_data = [s \in sessions |-> <<>>]
    /\ ghost_data = [s \in sessions |-> None]
    /\ complete_calls = <<>>
    /\ start_checkpoints = <<>>
    /\ cancelled = {}
    /\ error = [s \in sessions |-> None]

\* the Active Run page in both sessions; time passes between the clicks and
\* not inside one
NextTwo ==
    \/ Tick
    \/ \E s \in sessions : Rerun(s)
    \/ \E s \in sessions : Reload(s)
    \/ \E s \in sessions, route_id \in get_routes : StartRun(s, route_id)
    \/ \E s \in sessions : RecordCheckpoint(s, 0, 0)
    \/ \E s \in sessions : CancelRun(s)

SpecTwo == InitTwo /\ [][NextTwo]_vars

\* C29: with two sessions attached to the same incomplete run, one by Start
\* Run and the other by the reattach block, no interleaving of their
\* Checkpoint Reached clicks stores two checkpoint_times rows for the same
\* (run, checkpoint) or calls complete_run for the run more than once.
C29_NoDuplicateRecording ==
    /\ \A a \in checkpoint_times, b \in checkpoint_times :
          a.run_id = b.run_id /\ a.checkpoint_id = b.checkpoint_id => a = b
    /\ \A run_id \in 1..Len(complete_calls) : complete_calls[run_id] <= 1

\* the stored timestamp of the event before row ct in its run: the
\* time_reached of the row recorded just before it, or the run's start_time
PreviousEventTime(ct) ==
    LET earlier == {x \in RowsOf(ct.run_id) : x.id < ct.id}
    IN  IF earlier = {}
        THEN (CHOOSE r \in runs : r.id = ct.run_id).start_time
        ELSE (CHOOSE x \in earlier : \A y \in earlier : y.id <= x.id).time_reached

\* C30: the segment_time_seconds of every checkpoint_times row is its own
\* time_reached minus the stored timestamp of the previous event of the run
\* (the previous row's time_reached, or the run's start_time for the first).
C30_SegmentIsStoredDifference ==
    \A ct \in checkpoint_times :
        (\E r \in runs : r.id = ct.run_id)
           => ct.segment_time_seconds = ct.time_reached - PreviousEventTime(ct)

\* C31: whenever a session holds an active run, the runs table has a row
\* with that id that is not completed and whose route is still in the
\* routes table, also after Delete Route or Delete This Run during a run.
C31_ActiveRunIsStored ==
    \A s \in sessions :
        active_run[s] # None
           => \E r \in runs : /\ r.id = active_run[s][1]
                              /\ ~r.is_completed
                              /\ r.route_id \in get_routes

\* C32: every run stored as completed has exactly one checkpoint_times row
\* for each checkpoint of the list it was started with: a run is never
\* completed with fewer rows than its route had checkpoints when it was
\* started, nor with more.
C32_CompletedRunHasAllRows ==
    \A r \in runs :
        r.is_completed
           => LET cps == start_checkpoints[r.id]
              IN  /\ Cardinality(RowsOf(r.id)) = Len(cps)
                  /\ \A k \in 1..Len(cps) :
                        Cardinality({ct \in RowsOf(r.id) :
                                        ct.checkpoint_id = cps[k].id}) = 1

\* ------------------------------------- two sessions, script runs interleaved
\* Streamlit runs the script of each session in a thread of its own, so the
\* script run of a "Start Run" click is not one step: the reattach block at
\* its top reads storage, and start_new_run writes later.
\* First half: the script top finds no incomplete run, the form is drawn and
\* the handler is entered
StartRunClicked(s) ==
    /\ pc[s] = "idle"
    /\ active_run[s] = None
    /\ get_latest_active_run = None
    /\ pc' = [pc EXCEPT ![s] = "Start Run clicked"]
    /\ UNCHANGED <<clock, utc_offset, storage, sessions, session_state, history>>

\* Second half: get_checkpoints, start_new_run, st.rerun()
StartRunInsert(s, route_id) ==
    /\ pc[s] = "Start Run clicked"
    /\ route_id \in get_routes
    /\ get_checkpoints(route_id) # <<>>
    /\ lastrowid.runs < MaxRuns
    /\ LET run == start_run(route_id, clock)
       IN  /\ runs' = runs \cup {run}
           /\ lastrowid' = [lastrowid EXCEPT !.runs = run.id]
           /\ \E g \in get_live_ghost_data(route_id) :
                 SetSession(s, [active_run |-> Some(run.id),
                                current_checkpoint_index |-> 0,
                                checkpoints_data |-> get_checkpoints(route_id),
                                ghost_data |-> g])
    /\ pc' = [pc EXCEPT ![s] = "Start Run"]
    /\ complete_calls' = Append(complete_calls, 0)
    /\ start_checkpoints' = Append(start_checkpoints, get_checkpoints(route_id))
    /\ UNCHANGED <<clock, utc_offset, routes, checkpoints, checkpoint_times,
                   sessions, cancelled, error>>

\* the clock is left out: no guard of these handlers reads it
NextStartRace ==
    \/ \E s \in sessions : Rerun(s)
    \/ \E s \in sessions : Reload(s)
    \/ \E s \in sessions : StartRunClicked(s)
    \/ \E s \in sessions, route_id \in get_routes : StartRunInsert(s, route_id)
    \/ \E s \in sessions : RecordCheckpoint(s, 0, 0)
    \/ \E s \in sessions : CancelRun(s)

SpecStartRace == InitTwo /\ [][NextStartRace]_vars

\* C33: with two sessions on one storage, no interleaving of their Start Run
\* clicks leaves two runs with is_completed = 0 for the same route in the
\* runs table at the same time.
C33_OneIncompleteRunPerRoute ==
    \A a \in runs, b \in runs :
        ~a.is_completed /\ ~b.is_completed /\ a.route_id = b.route_id => a = b

MaxOffset == 1

Offsets == (0 - MaxOffset)..MaxOffset

\* the application on a host whose local time is utc_offset away from UTC
InitOffsets ==
    /\ clock = 0
    /\ utc_offset \in Offsets
    /\ routes = {}
    /\ checkpoints = {}
    /\ runs = {}
    /\ checkpoint_times = {}
    /\ lastrowid = [routes |-> 0, checkpoints |-> 0, runs |-> 0, checkpoint_times |-> 0]
    /\ sessions = {1}
    /\ pc = [s \in sessions |-> "idle"]
    /\ active_run = [s \in sessions |-> None]
    /\ current_checkpoint_index = [s \in sessions |-> 0]
    /\ checkpoints_data = [s \in sessions |-> <<>>]
    /\ ghost_data = [s \in sessions |-> None]
    /\ complete_calls = <<>>
    /\ start_checkpoints = <<>>
    /\ cancelled = {}
    /\ error = [s \in sessions |-> None]

SpecOffsets == InitOffsets /\ [][Next]_vars

\* the UTC time at which the event before the next checkpoint of run_id was
\* stamped: the latest checkpoint_times row of the run, or its start
LastEventUtc(run_id) ==
    LET rows == RowsOf(run_id)
        stamp == IF rows = {}
                 THEN (CHOOSE r \in runs : r.id = run_id).start_time
                 ELSE (CHOOSE x \in rows : \A y \in rows : y.id <= x.id).time_reached
    IN  stamp - utc_offset

\* C35: durations do not depend on the host's offset from UTC. On every
\* Checkpoint Reached step, whatever the offset, the segment stored is the
\* time from the previous event of the run to the click, and the total
\* stored with a completed run is the time from its start to the click.
C35_DurationsIgnoreOffset ==
    [][\A s \in sessions, d1 \in 0..MaxDelay, d2 \in 0..MaxDelay :
          RecordCheckpoint(s, d1, d2)
          => LET run_id == active_run[s][1]
                 run == CHOOSE r \in runs : r.id = run_id
             IN  /\ \A ct \in checkpoint_times' \ checkpoint_times :
                       ct.segment_time_seconds = clock - LastEventUtc(run_id)
                 /\ \A r \in runs' :
                       r.id = run_id /\ r.is_completed
                          => r.total_time_seconds[1] =
                                 clock - (run.start_time - utc_offset)
      ]_vars
====
